---- MODULE Spec2Model ----
(***************************************************************************)
(* A model of the Pagerank engine of src/src/pagerank.rs: the identifier   *)
(* to index mapping, the reverse adjacency, the out-degree vector, and the *)
(* power iteration of rank with its callback.                              *)
(*                                                                         *)
(* Vec<T> is a function over 0..len-1 (the source's indices are kept); the *)
(* in-link lists and the callback log are sequences.  f64 values are exact *)
(* rationals <<n, d>> with d > 0 in lowest terms, extended by the IEEE     *)
(* values the code can produce from a zero size: <<1, 0>> is +inf,         *)
(* <<-1, 0>> is -inf and <<0, 0>> is NaN.  Rounding and the sign of zero   *)
(* are not modelled.                                                       *)
(*                                                                         *)
(* A Rust panic (index out of bounds) unwinds the calling thread: the      *)
(* model records result = "Panic" and no further call is made.             *)
(***************************************************************************)
EXTENDS Integers, Sequences, FiniteSets, TLC

\* ------------------------------------------------------------------ bounds
MaxCapacity == 2
MaxEdges == 3
MaxIter == 3
ParMaxEdges == 2

\* External identifiers: arbitrary unsigned integers, none equal to an index
\* the model can assign, so an identifier is never mistaken for an index.
Keys == {13, 15, 18}

\* ------------------------------------------------------------- f64 values
Zero == <<0, 1>>
One == <<1, 1>>
NaN == <<0, 0>>

Abs(x) == IF x < 0 THEN -x ELSE x

Sgn(x) == IF x < 0 THEN -1 ELSE IF x > 0 THEN 1 ELSE 0

RECURSIVE GCD(_, _)
GCD(a, b) == IF b = 0 THEN a ELSE GCD(b, a % b)

Ratio(n, d) ==
  IF d = 0 THEN <<Sgn(n), 0>>
  ELSE LET g == GCD(Abs(n), Abs(d))
       IN <<(Sgn(d) * n) \div g, Abs(d) \div g>>

IsNaN(a) == a = NaN

IsInf(a) == a[2] = 0 /\ a[1] # 0

IsFinite(a) == a[2] > 0

FromUsize(n) == <<n, 1>>

FNeg(a) == <<-a[1], a[2]>>

FAbs(a) == <<Abs(a[1]), a[2]>>

FAdd(a, b) ==
  IF IsNaN(a) \/ IsNaN(b) THEN NaN
  ELSE IF IsInf(a) THEN (IF IsInf(b) /\ b[1] # a[1] THEN NaN ELSE a)
  ELSE IF IsInf(b) THEN b
  ELSE LET g == GCD(a[2], b[2])
           l == (a[2] \div g) * b[2]
       IN Ratio(a[1] * (l \div a[2]) + b[1] * (l \div b[2]), l)

FSub(a, b) == FAdd(a, FNeg(b))

FMul(a, b) ==
  IF IsNaN(a) \/ IsNaN(b) THEN NaN
  ELSE IF IsInf(a) \/ IsInf(b)
       THEN (IF a[1] = 0 \/ b[1] = 0 THEN NaN ELSE <<Sgn(a[1]) * Sgn(b[1]), 0>>)
  ELSE IF a[1] = 0 \/ b[1] = 0 THEN Zero
  ELSE LET g1 == GCD(Abs(a[1]), b[2])
           g2 == GCD(Abs(b[1]), a[2])
       IN Ratio((a[1] \div g1) * (b[1] \div g2), (a[2] \div g2) * (b[2] \div g1))

FDiv(a, b) ==
  IF IsNaN(a) \/ IsNaN(b) THEN NaN
  ELSE IF IsInf(b) THEN (IF IsInf(a) THEN NaN ELSE Zero)
  ELSE IF b[1] = 0 THEN (IF a[1] = 0 THEN NaN ELSE <<Sgn(a[1]), 0>>)
  ELSE IF IsInf(a) THEN <<Sgn(a[1]) * Sgn(b[1]), 0>>
  ELSE FMul(a, <<Sgn(b[1]) * b[2], Abs(b[1])>>)

\* a > b as f64 compares: false whenever either side is NaN
FGt(a, b) ==
  IF IsNaN(a) \/ IsNaN(b) THEN FALSE
  ELSE IF IsInf(a) THEN a[1] > 0 /\ a # b
  ELSE IF IsInf(b) THEN b[1] < 0
  ELSE a[1] * b[2] > b[1] * a[2]

\* Iterator::sum over a list of f64, starting from 0.0
RECURSIVE FSumSeq(_)
FSumSeq(s) == IF s = <<>> THEN Zero ELSE FAdd(FSumSeq(Tail(s)), Head(s))

\* ------------------------------------------------------------ Vec helpers
VecLen(v) == Cardinality(DOMAIN v)

VecToSeq(v) == [k \in 1..VecLen(v) |-> v[k - 1]]

FSumVec(v) == FSumSeq(VecToSeq(v))

Count(x, s) == Cardinality({k \in 1..Len(s) : s[k] = x})

\* rank's arguments: damping factors in (0,1) and tolerances on both sides
\* of 0 and of the initial value of change
Dampings == {<<1, 2>>, <<3, 4>>}
Tolerances == {<<-1, 1>>, <<0, 1>>, <<1, 16>>, <<2, 1>>}

\* ------------------------------------------------------------------ state
VARIABLES
  capacity, in_links, number_out_links, current_available_index,
  key_to_index, index_to_key,
  \* the frame of the rank call in progress (or of the last one)
  pc, following_prob, tolerance, size, inverse_of_size, t_over_size,
  dangling_nodes, p, new_p, change, emit_i,
  \* what the caller observes
  lastOp, result, calls,
  \* history
  args, preKeys, okEdges, firstSeen, capErr, iterations,
  \* the parallel tasks of the step in progress: its phase, the tasks of the
  \* phase that have not run yet, the partial sums of the two reductions
  \* (inner_product and v_sum of step), and the scores of the
  \* previous rank call when this one repeats it on the same graph
  step_phase, pending, inner_acc, sum_acc, prevCalls

engine == <<capacity, in_links, number_out_links, current_available_index,
            key_to_index, index_to_key>>

frame == <<pc, following_prob, tolerance, size, inverse_of_size, t_over_size,
           dangling_nodes, p, new_p, change, emit_i, calls, iterations>>

history == <<args, preKeys, okEdges, firstSeen, capErr>>

par == <<step_phase, pending, inner_acc, sum_acc, prevCalls>>

vars == <<engine, frame, lastOp, result, history, par>>

EmptyMap == [k \in {} |-> 0]

NoEdges == [e \in Keys \X Keys |-> 0]

\* ------------------------------------------------------------ Pagerank::new
NewInLinks(c) == [i \in 0..(c - 1) |-> <<>>]

NewNumberOutLinks(c) == [i \in 0..(c - 1) |-> 0]

NoFrame ==
  /\ pc' = "idle"
  /\ following_prob' = Zero
  /\ tolerance' = Zero
  /\ size' = 0
  /\ inverse_of_size' = Zero
  /\ t_over_size' = Zero
  /\ dangling_nodes' = <<>>
  /\ p' = <<>>
  /\ new_p' = <<>>
  /\ change' = Zero
  /\ emit_i' = 0
  /\ calls' = <<>>
  /\ iterations' = 0
  /\ step_phase' = "none"
  /\ pending' = {}
  /\ inner_acc' = Zero
  /\ sum_acc' = Zero
  /\ prevCalls' = <<>>

Init ==
  /\ capacity \in 0..MaxCapacity
  /\ in_links = NewInLinks(capacity)
  /\ number_out_links = NewNumberOutLinks(capacity)
  /\ current_available_index = 0
  /\ key_to_index = EmptyMap
  /\ index_to_key = EmptyMap
  /\ pc = "idle"
  /\ following_prob = Zero
  /\ tolerance = Zero
  /\ size = 0
  /\ inverse_of_size = Zero
  /\ t_over_size = Zero
  /\ dangling_nodes = <<>>
  /\ p = <<>>
  /\ new_p = <<>>
  /\ change = Zero
  /\ emit_i = 0
  /\ calls = <<>>
  /\ iterations = 0
  /\ lastOp = "new"
  /\ result = "None"
  /\ args = <<>>
  /\ preKeys = {}
  /\ okEdges = NoEdges
  /\ firstSeen = <<>>
  /\ capErr = FALSE
  /\ step_phase = "none"
  /\ pending = {}
  /\ inner_acc = Zero
  /\ sum_acc = Zero
  /\ prevCalls = <<>>

\* ------------------------------------------- Pagerank::key_as_array_index
\* The outcome of one call on the maps k2i, i2k and the cursor cur: the
\* capacity guard comes first, then the entry lookup, then the insertion.
KeyAsArrayIndexGuard(cur) == cur > capacity

\* key_as_array_index with HashMap::insert in place of entry().or_insert_with
KeyAsArrayIndexReassigning(k2i, i2k, cur, key) ==
  IF cur > capacity
  THEN [err |-> TRUE, index |-> 0, k2i |-> k2i, i2k |-> i2k, cur |-> cur]
  ELSE [err |-> FALSE, index |-> cur,
        k2i |-> [k \in DOMAIN k2i \cup {key} |-> IF k = key THEN cur ELSE k2i[k]],
        i2k |-> [i \in DOMAIN i2k \cup {cur} |-> IF i = cur THEN key ELSE i2k[i]],
        cur |-> cur + 1]

KeyAsArrayIndex(k2i, i2k, cur, key) ==
  IF KeyAsArrayIndexGuard(cur)
  THEN [err |-> TRUE, index |-> 0, k2i |-> k2i, i2k |-> i2k, cur |-> cur]
  ELSE IF key \in DOMAIN k2i
  THEN [err |-> FALSE, index |-> k2i[key], k2i |-> k2i, i2k |-> i2k, cur |-> cur]
  ELSE [err |-> FALSE, index |-> cur,
        k2i |-> [k \in DOMAIN k2i \cup {key} |-> IF k = key THEN cur ELSE k2i[k]],
        i2k |-> [i \in DOMAIN i2k \cup {cur} |-> IF i = cur THEN key ELSE i2k[i]],
        cur |-> cur + 1]

\* --------------------------------------------------- Pagerank::link helpers
UpdateInLinksIfAbsent(il, from_as_index, to_as_index) ==
  IF Count(from_as_index, il[to_as_index]) > 0 THEN il
  ELSE [il EXCEPT ![to_as_index] = Append(@, from_as_index)]

UpdateInLinks(il, from_as_index, to_as_index) ==
  [il EXCEPT ![to_as_index] = Append(@, from_as_index)]

UpdateNumberOutLinks(nol, from_as_index) ==
  [nol EXCEPT ![from_as_index] = @ + 1]

TotalEdges ==
  LET RECURSIVE Tot(_)
      Tot(i) == IF i = 0 THEN 0 ELSE Tot(i - 1) + Len(in_links[i - 1])
  IN Tot(VecLen(in_links))

\* Result of link(from, to) in the current state: both endpoints are
\* resolved in turn, then link_with_indices indexes the two vectors.
LinkOutcome(from, to) ==
  LET r1 == KeyAsArrayIndex(key_to_index, index_to_key, current_available_index, from)
      r2 == KeyAsArrayIndex(r1.k2i, r1.i2k, r1.cur, to)
  IN IF r1.err \/ r2.err THEN "CapacityError"
     ELSE IF r2.index \notin DOMAIN in_links THEN "Panic"
     ELSE IF r1.index \notin DOMAIN number_out_links THEN "Panic"
     ELSE "Ok"

AppendIfNew(s, k) == IF \E j \in 1..Len(s) : s[j] = k THEN s ELSE Append(s, k)

Link(from, to) ==
  LET r1 == KeyAsArrayIndex(key_to_index, index_to_key, current_available_index, from)
      r2 == KeyAsArrayIndex(r1.k2i, r1.i2k, r1.cur, to)
      last == IF r1.err THEN r1 ELSE r2
      out == LinkOutcome(from, to)
  IN /\ pc = "idle"
     /\ result # "Panic"
     /\ out = "Ok" => TotalEdges < MaxEdges
     /\ key_to_index' = last.k2i
     /\ index_to_key' = last.i2k
     /\ current_available_index' = last.cur
     /\ in_links' = IF ~r1.err /\ ~r2.err /\ r2.index \in DOMAIN in_links
                    THEN UpdateInLinks(in_links, r1.index, r2.index)
                    ELSE in_links
     /\ number_out_links' = IF out = "Ok"
                             THEN UpdateNumberOutLinks(number_out_links, r1.index)
                             ELSE number_out_links
     /\ UNCHANGED capacity
     /\ NoFrame
     /\ lastOp' = "link"
     /\ result' = out
     /\ args' = <<from, to>>
     /\ preKeys' = DOMAIN key_to_index
     /\ okEdges' = IF out = "Ok" THEN [okEdges EXCEPT ![<<from, to>>] = @ + 1]
                   ELSE okEdges
     /\ firstSeen' = AppendIfNew(AppendIfNew(firstSeen, from), to)
     /\ capErr' = (capErr \/ out = "CapacityError")

\* ---------------------------------------------------------- Pagerank::clear
ClearKeepingOutLinks ==
  /\ pc = "idle"
  /\ result # "Panic"
  /\ in_links' = [i \in DOMAIN in_links |-> <<>>]
  /\ number_out_links' = number_out_links
  /\ current_available_index' = 0
  /\ key_to_index' = EmptyMap
  /\ index_to_key' = EmptyMap
  /\ UNCHANGED capacity
  /\ NoFrame
  /\ lastOp' = "clear"
  /\ result' = "None"
  /\ args' = <<>>
  /\ preKeys' = {}
  /\ okEdges' = NoEdges
  /\ firstSeen' = <<>>
  /\ UNCHANGED capErr

Clear ==
  /\ pc = "idle"
  /\ result # "Panic"
  /\ in_links' = [i \in DOMAIN in_links |-> <<>>]
  /\ number_out_links' = [i \in DOMAIN number_out_links |-> 0]
  /\ current_available_index' = 0
  /\ key_to_index' = EmptyMap
  /\ index_to_key' = EmptyMap
  /\ UNCHANGED capacity
  /\ NoFrame
  /\ lastOp' = "clear"
  /\ result' = "None"
  /\ args' = <<>>
  /\ preKeys' = {}
  /\ okEdges' = NoEdges
  /\ firstSeen' = <<>>
  /\ UNCHANGED capErr

\* ------------------------------------------ Pagerank::calculate_dangling_nodes
\* The indices below the cursor (and inside number_out_links: take stops at
\* the end of the vector) whose out-degree is 0, in ascending order.
CalculateDanglingNodes ==
  LET n == IF current_available_index < VecLen(number_out_links)
           THEN current_available_index ELSE VecLen(number_out_links)
      RECURSIVE Upto(_)
      Upto(i) == IF i = 0 THEN <<>>
                 ELSE IF number_out_links[i - 1] = 0
                      THEN Append(Upto(i - 1), i - 1)
                      ELSE Upto(i - 1)
  IN Upto(n)

\* ----------------------------------------------------------- Pagerank::step
\* The last two lines of step: every entry divided by the sum of the vector.
NormalizeBySize(v) ==
  [i \in DOMAIN v |-> FDiv(v[i], FromUsize(VecLen(v)))]

Normalize(v) ==
  LET v_sum == FSumVec(v)
  IN [i \in DOMAIN v |-> FDiv(v[i], v_sum)]

\* step indexes in_links with every i below p.len(), and p and
\* number_out_links with every recorded source index: an index outside the
\* vector panics.
StepPanics(pv, dangling) ==
  \/ \E k \in 1..Len(dangling) : dangling[k] \notin DOMAIN pv
  \/ \E i \in DOMAIN pv : i \notin DOMAIN in_links
  \/ \E i \in DOMAIN pv \cap DOMAIN in_links : \E k \in 1..Len(in_links[i]) :
        \/ in_links[i][k] \notin DOMAIN pv
        \/ in_links[i][k] \notin DOMAIN number_out_links

Step(fp, tos, pv, dangling) ==
  LET sz == VecLen(pv)
      inner_product == FSumSeq([k \in 1..Len(dangling) |-> pv[dangling[k]]])
      inner_product_over_size == FDiv(inner_product, FromUsize(sz))
      rank_sum(i) ==
        FSumSeq([k \in 1..Len(in_links[i]) |->
                   FDiv(pv[in_links[i][k]],
                        FromUsize(number_out_links[in_links[i][k]]))])
      raw == [i \in DOMAIN pv |->
                FAdd(FMul(fp, FAdd(rank_sum(i), inner_product_over_size)), tos)]
  IN Normalize(raw)

\* ------------------------------------------------ Pagerank::calculate_change
CalculateChange(pv, npv) ==
  FSumSeq([k \in 1..VecLen(pv) |-> FAbs(FSub(pv[k - 1], npv[k - 1]))])

\* ----------------------------------------------------------- Pagerank::rank
InitialChangeZero == Zero

InitialChange == <<2, 1>>

RankSizeOfStorage == capacity

RankSize == Cardinality(DOMAIN key_to_index)

\* lines 211-218: the locals of rank, before the loop
RankBegin(fp, tol) ==
  /\ pc = "idle"
  /\ result # "Panic"
  /\ pc' = "loop"
  /\ following_prob' = fp
  /\ tolerance' = tol
  /\ size' = RankSize
  /\ inverse_of_size' = FDiv(One, FromUsize(size'))
  /\ t_over_size' = FMul(FSub(One, fp), inverse_of_size')
  /\ dangling_nodes' = CalculateDanglingNodes
  /\ p' = [i \in 0..(size' - 1) |-> inverse_of_size']
  /\ new_p' = [i \in 0..(size' - 1) |-> Zero]
  /\ change' = InitialChange
  /\ emit_i' = 0
  /\ calls' = <<>>
  /\ iterations' = 0
  /\ lastOp' = "rank"
  /\ result' = "Running"
  /\ UNCHANGED <<engine, history, par>>

\* lines 220-227: one pass of the loop body
RankStep ==
  /\ pc = "loop"
  /\ FGt(change, tolerance)
  /\ iterations < MaxIter
  /\ ~StepPanics(p, dangling_nodes)
  /\ LET stepped == Step(following_prob, t_over_size, p, dangling_nodes)
     IN /\ change' = CalculateChange(p, stepped)
        /\ p' = stepped
        /\ new_p' = p
  /\ iterations' = iterations + 1
  /\ UNCHANGED <<pc, following_prob, tolerance, size, inverse_of_size,
                 t_over_size, dangling_nodes, emit_i, calls>>
  /\ UNCHANGED <<engine, history, lastOp, result, par>>

\* the loop body panics inside step: rank unwinds without any callback
RankStepPanic ==
  /\ pc = "loop"
  /\ FGt(change, tolerance)
  /\ iterations < MaxIter
  /\ StepPanics(p, dangling_nodes)
  /\ pc' = "panic"
  /\ result' = "Panic"
  /\ UNCHANGED <<following_prob, tolerance, size, inverse_of_size, t_over_size,
                 dangling_nodes, p, new_p, change, emit_i, calls, iterations>>
  /\ UNCHANGED <<engine, history, lastOp, par>>

\* line 220: the loop condition is false
RankLoopExit ==
  /\ pc = "loop"
  /\ ~FGt(change, tolerance)
  /\ pc' = "emit"
  /\ emit_i' = 0
  /\ UNCHANGED <<following_prob, tolerance, size, inverse_of_size, t_over_size,
                 dangling_nodes, p, new_p, change, calls, iterations>>
  /\ UNCHANGED <<engine, history, lastOp, result, par>>

\* lines 229-233: one element of p.into_iter().enumerate()
RankEmitConsuming ==
  /\ pc = "emit"
  /\ emit_i < VecLen(p)
  /\ calls' = IF emit_i \in DOMAIN index_to_key
              THEN Append(calls, <<index_to_key[emit_i], p[emit_i]>>)
              ELSE calls
  /\ index_to_key' = [i \in DOMAIN index_to_key \ {emit_i} |-> index_to_key[i]]
  /\ emit_i' = emit_i + 1
  /\ UNCHANGED <<pc, following_prob, tolerance, size, inverse_of_size,
                 t_over_size, dangling_nodes, p, new_p, change, iterations>>
  /\ UNCHANGED <<capacity, in_links, number_out_links, current_available_index,
                 key_to_index, history, lastOp, result, par>>

RankEmit ==
  /\ pc = "emit"
  /\ emit_i < VecLen(p)
  /\ calls' = IF emit_i \in DOMAIN index_to_key
              THEN Append(calls, <<index_to_key[emit_i], p[emit_i]>>)
              ELSE calls
  /\ emit_i' = emit_i + 1
  /\ UNCHANGED <<pc, following_prob, tolerance, size, inverse_of_size,
                 t_over_size, dangling_nodes, p, new_p, change, iterations>>
  /\ UNCHANGED <<engine, history, lastOp, result, par>>

\* line 234: rank returns
RankReturn ==
  /\ pc = "emit"
  /\ emit_i = VecLen(p)
  /\ pc' = "idle"
  /\ result' = "Returned"
  /\ UNCHANGED <<following_prob, tolerance, size, inverse_of_size, t_over_size,
                 dangling_nodes, p, new_p, change, emit_i, calls, iterations>>
  /\ UNCHANGED <<engine, history, lastOp, par>>

\* ------------------------------------------------------------ specification
Next ==
  \/ \E from \in Keys, to \in Keys : Link(from, to)
  \/ Clear
  \/ \E fp \in Dampings, tol \in Tolerances : RankBegin(fp, tol)
  \/ RankStep
  \/ RankStepPanic
  \/ RankLoopExit
  \/ RankEmit
  \/ RankReturn

Spec == Init /\ [][Next]_vars

\* ------------------------------------------- Pagerank::step, task by task
\* The same step with its rayon tasks made visible.  The tasks of one
\* parallel iterator run in any order; a reduction (sum) adds the value of
\* each task to the partial sum in the order the tasks finish.  The phases
\* follow the statements of step: "inner" is line 162, "write" lines
\* 165-172, "sum" line 174 and "norm" line 175.
ParTolerances == {<<0, 1>>, <<1, 16>>}

frameConst == <<pc, following_prob, tolerance, size, inverse_of_size,
                t_over_size, dangling_nodes, emit_i, calls>>

\* lines 211-218, remembering the scores of the call that this one repeats
ParRankBegin(fp, tol) ==
  /\ pc = "idle"
  /\ result # "Panic"
  /\ pc' = "loop"
  /\ following_prob' = fp
  /\ tolerance' = tol
  /\ size' = RankSize
  /\ inverse_of_size' = FDiv(One, FromUsize(size'))
  /\ t_over_size' = FMul(FSub(One, fp), inverse_of_size')
  /\ dangling_nodes' = CalculateDanglingNodes
  /\ p' = [i \in 0..(size' - 1) |-> inverse_of_size']
  /\ new_p' = [i \in 0..(size' - 1) |-> Zero]
  /\ change' = InitialChange
  /\ emit_i' = 0
  /\ calls' = <<>>
  /\ iterations' = 0
  /\ lastOp' = "rank"
  /\ result' = "Running"
  /\ prevCalls' = IF lastOp = "rank" /\ result = "Returned"
                     /\ fp = following_prob /\ tol = tolerance
                  THEN <<calls>> ELSE <<>>
  /\ UNCHANGED <<step_phase, pending, inner_acc, sum_acc>>
  /\ UNCHANGED <<engine, history>>

\* line 220 true, line 222: step is entered and line 162 forks its tasks
ParStepBegin ==
  /\ pc = "loop"
  /\ step_phase = "none"
  /\ FGt(change, tolerance)
  /\ iterations < MaxIter
  /\ step_phase' = "inner"
  /\ pending' = 1..Len(dangling_nodes)
  /\ inner_acc' = Zero
  /\ sum_acc' = Zero
  /\ UNCHANGED <<frameConst, p, new_p, change, iterations, prevCalls>>
  /\ UNCHANGED <<engine, history, lastOp, result>>

\* line 162: the task of the k-th dangling node adds p[node]
ParInnerTask(k) ==
  /\ step_phase = "inner"
  /\ k \in pending
  /\ dangling_nodes[k] \in DOMAIN p
  /\ inner_acc' = FAdd(inner_acc, p[dangling_nodes[k]])
  /\ pending' = pending \ {k}
  /\ UNCHANGED <<frameConst, p, new_p, change, iterations, step_phase,
                 sum_acc, prevCalls>>
  /\ UNCHANGED <<engine, history, lastOp, result>>

\* line 165: the sum is complete, for_each forks one task per slot of new_p
ParInnerDone ==
  /\ step_phase = "inner"
  /\ pending = {}
  /\ step_phase' = "write"
  /\ pending' = DOMAIN new_p
  /\ UNCHANGED <<frameConst, p, new_p, change, iterations, inner_acc,
                 sum_acc, prevCalls>>
  /\ UNCHANGED <<engine, history, lastOp, result>>

\* the indexing of lines 166-168 in the task of slot i
SlotPanics(pv, i) ==
  \/ i \notin DOMAIN in_links
  \/ /\ i \in DOMAIN in_links
     /\ \E k \in 1..Len(in_links[i]) :
          \/ in_links[i][k] \notin DOMAIN pv
          \/ in_links[i][k] \notin DOMAIN number_out_links

\* lines 166-171: the value the task of slot i computes from the vector pv
\* and the dangling mass ip
StepSlot(fp, tos, pv, ip, i) ==
  LET inner_product_over_size == FDiv(ip, FromUsize(VecLen(pv)))
      rank_sum ==
        FSumSeq([k \in 1..Len(in_links[i]) |->
                   FDiv(pv[in_links[i][k]],
                        FromUsize(number_out_links[in_links[i][k]]))])
  IN FAdd(FMul(fp, FAdd(rank_sum, inner_product_over_size)), tos)

\* a task that reads the buffer the tasks are writing
ParWriteTaskReadingNext(i) ==
  /\ step_phase = "write"
  /\ pc = "loop"
  /\ i \in pending
  /\ ~SlotPanics(p, i)
  /\ new_p' = [new_p EXCEPT
                 ![i] = StepSlot(following_prob, t_over_size, new_p, inner_acc, i)]
  /\ pending' = pending \ {i}
  /\ UNCHANGED <<frameConst, p, change, iterations, step_phase, inner_acc,
                 sum_acc, prevCalls>>
  /\ UNCHANGED <<engine, history, lastOp, result>>

\* lines 165-172: the task of slot i reads p and writes new_p[i]
ParWriteTask(i) ==
  /\ step_phase = "write"
  /\ pc = "loop"
  /\ i \in pending
  /\ ~SlotPanics(p, i)
  /\ new_p' = [new_p EXCEPT
                 ![i] = StepSlot(following_prob, t_over_size, p, inner_acc, i)]
  /\ pending' = pending \ {i}
  /\ UNCHANGED <<frameConst, p, change, iterations, step_phase, inner_acc,
                 sum_acc, prevCalls>>
  /\ UNCHANGED <<engine, history, lastOp, result>>

\* the task of slot i indexes out of bounds: rank unwinds
ParTaskPanic(i) ==
  /\ step_phase = "write"
  /\ pc = "loop"
  /\ i \in pending
  /\ SlotPanics(p, i)
  /\ pc' = "panic"
  /\ result' = "Panic"
  /\ UNCHANGED <<following_prob, tolerance, size, inverse_of_size, t_over_size,
                 dangling_nodes, p, new_p, change, emit_i, calls, iterations>>
  /\ UNCHANGED <<engine, history, lastOp, par>>

\* line 174: every slot is written, the sum over new_p forks its tasks
ParWriteDone ==
  /\ step_phase = "write"
  /\ pc = "loop"
  /\ pending = {}
  /\ step_phase' = "sum"
  /\ pending' = DOMAIN new_p
  /\ UNCHANGED <<frameConst, p, new_p, change, iterations, inner_acc,
                 sum_acc, prevCalls>>
  /\ UNCHANGED <<engine, history, lastOp, result>>

\* line 174: the task of slot i adds new_p[i]
ParSumTask(i) ==
  /\ step_phase = "sum"
  /\ i \in pending
  /\ sum_acc' = FAdd(sum_acc, new_p[i])
  /\ pending' = pending \ {i}
  /\ UNCHANGED <<frameConst, p, new_p, change, iterations, step_phase,
                 inner_acc, prevCalls>>
  /\ UNCHANGED <<engine, history, lastOp, result>>

\* line 175: v_sum is complete, for_each forks one task per slot
ParSumDone ==
  /\ step_phase = "sum"
  /\ pending = {}
  /\ step_phase' = "norm"
  /\ pending' = DOMAIN new_p
  /\ UNCHANGED <<frameConst, p, new_p, change, iterations, inner_acc,
                 sum_acc, prevCalls>>
  /\ UNCHANGED <<engine, history, lastOp, result>>

\* line 175: the task of slot i divides new_p[i] by v_sum
ParNormTask(i) ==
  /\ step_phase = "norm"
  /\ i \in pending
  /\ new_p' = [new_p EXCEPT ![i] = FDiv(@, sum_acc)]
  /\ pending' = pending \ {i}
  /\ UNCHANGED <<frameConst, p, change, iterations, step_phase, inner_acc,
                 sum_acc, prevCalls>>
  /\ UNCHANGED <<engine, history, lastOp, result>>

\* step returns; lines 223-226: the change, then the swap of p and new_p
ParStepEnd ==
  /\ step_phase = "norm"
  /\ pending = {}
  /\ change' = CalculateChange(p, new_p)
  /\ p' = new_p
  /\ new_p' = p
  /\ iterations' = iterations + 1
  /\ step_phase' = "none"
  /\ inner_acc' = Zero
  /\ sum_acc' = Zero
  /\ UNCHANGED <<frameConst, pending, prevCalls>>
  /\ UNCHANGED <<engine, history, lastOp, result>>

NextPar ==
  \/ \E from \in Keys, to \in Keys : TotalEdges < ParMaxEdges /\ Link(from, to)
  \/ Clear
  \/ \E fp \in Dampings, tol \in ParTolerances : ParRankBegin(fp, tol)
  \/ ParStepBegin
  \/ \E k \in pending : ParInnerTask(k)
  \/ ParInnerDone
  \/ \E i \in pending : ParWriteTask(i)
  \/ \E i \in pending : ParTaskPanic(i)
  \/ ParWriteDone
  \/ \E i \in pending : ParSumTask(i)
  \/ ParSumDone
  \/ \E i \in pending : ParNormTask(i)
  \/ ParStepEnd
  \/ RankLoopExit
  \/ RankEmit
  \/ RankReturn

SpecPar == Init /\ [][NextPar]_vars

\* ------------------------------------------------------------- vocabulary
Registered == DOMAIN key_to_index

\* the in-link list and the out-degree stored for index i, if storage has it
InLinksAt(i) == IF i \in DOMAIN in_links THEN in_links[i] ELSE <<>>

OutLinksAt(i) == IF i \in DOMAIN number_out_links THEN number_out_links[i] ELSE 0

RECURSIVE SumOk(_)
SumOk(E) ==
  IF E = {} THEN 0
  ELSE LET e == CHOOSE x \in E : TRUE IN okEdges[e] + SumOk(E \ {e})

\* the registered identifiers in the order link first saw them
RegisteredInFirstSeenOrder == SelectSeq(firstSeen, LAMBDA k : k \in Registered)

RankEnded == lastOp = "rank" /\ result \in {"Returned", "Panic"}

ScoresOf(cs) == [k \in 1..Len(cs) |-> cs[k][2]]

\* C1: in every reachable state at most capacity identifiers are registered
\* and every assigned index lies inside the pre-sized storage; a link call
\* that would register one identifier more returns CapacityError.
C1_CapacityBound ==
  /\ Cardinality(Registered) <= capacity
  /\ \A k \in Registered :
       key_to_index[k] \in DOMAIN in_links \cap DOMAIN number_out_links
  /\ (lastOp = "link" /\ Cardinality(preKeys \cup {args[1], args[2]}) > capacity)
       => result = "CapacityError"

\* C2: after a link call has returned CapacityError, a rank call with
\* tolerance > 0 completes normally and invokes the callback exactly once
\* for every registered identifier.
C2_UsableAfterCapacityError ==
  (capErr /\ RankEnded /\ FGt(tolerance, Zero)) =>
    /\ result = "Returned"
    /\ \A k \in Registered :
         Cardinality({j \in 1..Len(calls) : calls[j][1] = k}) = 1

\* C3: a link call whose two endpoints were both registered before it, and
\* any link call after which at most capacity distinct identifiers have been
\* seen since construction or the last clear, returns Ok.
C3_ErrorOnlyForNewIdentifier ==
  (lastOp = "link" /\ (\/ {args[1], args[2]} \subseteq preKeys
                      \/ Len(firstSeen) <= capacity))
    => result = "Ok"

C5_ClearIsNew ==
  /\ [](lastOp = "clear" =>
          /\ in_links = NewInLinks(capacity)
          /\ number_out_links = NewNumberOutLinks(capacity)
          /\ current_available_index = 0
          /\ key_to_index = EmptyMap
          /\ index_to_key = EmptyMap
          /\ pc = "idle"
          /\ calls = <<>>
          /\ okEdges = NoEdges
          /\ firstSeen = <<>>)
  /\ [][capacity' = capacity]_vars

C5_Witness ==
  /\ lastOp = "clear"
  /\ capErr

\* C6: for a non-empty graph rank invokes the callback exactly once per
\* registered identifier, in the order the identifiers were first seen,
\* passing the identifier and the score at its index.
C6_CallbackPerIdentifier ==
  (RankEnded /\ Registered # {}) =>
    calls = [k \in 1..Cardinality(Registered) |->
               <<RegisteredInFirstSeenOrder[k], p[k - 1]>>]

\* C7 as stated: with no identifier registered rank invokes no callback,
\* executes no power-iteration step and divides by no zero.
C7_NoStepNoDivision ==
  (lastOp = "rank" /\ Registered = {}) =>
    /\ calls = <<>>
    /\ iterations = 0
    /\ IsFinite(inverse_of_size)

\* C7 amended: with no identifier registered rank invokes no callback and
\* does not panic, for every tolerance; it runs no step for tolerance >= 2
\* and, for tolerance < 2, a step over empty vectors that leaves change = 0
\* (so only one step when tolerance >= 0); 1/size is +inf and reaches no
\* score.
C7_EmptyGraph ==
  (lastOp = "rank" /\ Registered = {}) =>
    /\ calls = <<>>
    /\ result # "Panic"
    /\ p = <<>> /\ new_p = <<>>
    /\ inverse_of_size = <<1, 0>>
    /\ ~FGt(<<2, 1>>, tolerance) => iterations = 0
    /\ iterations >= 1 => change = Zero
    /\ ~FGt(Zero, tolerance) => iterations <= 1
    /\ (result = "Returned" /\ FGt(<<2, 1>>, tolerance)) => iterations = 1

C7_Witness ==
  /\ lastOp = "rank"
  /\ Registered = {}
  /\ result = "Returned"
  /\ iterations = 1
  /\ capacity > 0

\* C8: no step of rank changes the engine (in-link lists, out-degrees, both
\* maps, cursor, capacity), and a rank call works on the graph as it is
\* when it is called.
C8_RankIsPureRead ==
  /\ [][(pc # "idle" \/ pc' # "idle") => UNCHANGED engine]_vars
  /\ [](lastOp = "rank" =>
          /\ size = Cardinality(Registered)
          /\ VecLen(p) = Cardinality(Registered)
          /\ dangling_nodes = CalculateDanglingNodes)

C8_Witness ==
  /\ lastOp = "rank"
  /\ result = "Returned"
  /\ Len(calls) = 2
  /\ TotalEdges = 2

\* C9: for a non-empty graph and damping in (0,1) the probability vector of
\* rank sums to 1 before and after every step, and so do the scores it
\* reports.
C9_MassConservation ==
  (lastOp = "rank" /\ Registered # {}) =>
    /\ FSumVec(p) = One
    /\ result = "Returned" => FSumSeq(ScoresOf(calls)) = One

C9_Witness ==
  /\ lastOp = "rank"
  /\ result = "Returned"
  /\ iterations >= 2
  /\ dangling_nodes # <<>>
  /\ \E k \in Keys : okEdges[<<k, k>>] > 0
  /\ \E e \in Keys \X Keys : okEdges[e] >= 2

\* C10 as stated: for a non-empty graph and every tolerance, no score is
\* reported before one power-iteration step has run.
C10_StepBeforeReport ==
  (lastOp = "rank" /\ Registered # {} /\ Len(calls) > 0) => iterations >= 1

\* C10 amended: the same for every tolerance below 2.0, the initial value
\* of change.
C10_StepBeforeReportBelowTwo ==
  (lastOp = "rank" /\ Registered # {} /\ Len(calls) > 0
     /\ FGt(<<2, 1>>, tolerance))
    => iterations >= 1

C10_Witness ==
  /\ lastOp = "rank"
  /\ Registered # {}
  /\ Len(calls) > 0
  /\ iterations = 1
  /\ tolerance = <<0, 1>>

\* C11: key_to_index and index_to_key are inverse bijections between the
\* registered identifiers and the indices 0..current_available_index-1, the
\* indices follow the order in which link first saw the identifiers, without
\* gaps, and an identifier keeps its index until clear.
C11_IdentityMapping ==
  /\ [](/\ DOMAIN index_to_key = 0..(current_available_index - 1)
        /\ Cardinality(Registered) = current_available_index
        /\ \A k \in Registered :
             /\ key_to_index[k] \in DOMAIN index_to_key
             /\ index_to_key[key_to_index[k]] = k
        /\ \A i \in DOMAIN index_to_key :
             /\ index_to_key[i] \in Registered
             /\ key_to_index[index_to_key[i]] = i
        /\ Len(RegisteredInFirstSeenOrder) = current_available_index
        /\ \A j \in 1..Len(RegisteredInFirstSeenOrder) :
             key_to_index[RegisteredInFirstSeenOrder[j]] = j - 1)
  /\ [][lastOp' # "clear" =>
          \A k \in Registered :
            k \in Registered' /\ key_to_index'[k] = key_to_index[k]]_vars

C11_Witness ==
  /\ lastOp = "link"
  /\ result = "Ok"
  /\ {args[1], args[2]} \subseteq preKeys
  /\ args[1] # args[2]
  /\ key_to_index[args[1]] > key_to_index[args[2]]
  /\ capErr

====
